---- MODULE Spec2Model ----
(***************************************************************************)
(* A model of cogs5e/dice.py: the inline-roll extraction helpers           *)
(* (_find_roll_expr_indices, _find_inline_exprs), the advantage-token      *)
(* stripper (_string_search_adv), the batch roller (Dice._roll_many), the  *)
(* inline evaluation loop (Dice.do_inline_rolls) and the event handlers    *)
(* that trigger it (on_message, on_reaction_add).                          *)
(*                                                                         *)
(* Text is a sequence of one-character strings.  Offsets into a text are   *)
(* Python offsets (0-based, half-open slices), as in the source.           *)
(***************************************************************************)
EXTENDS Integers, Sequences, FiniteSets, TLC

VARIABLES
    \* ---- _find_inline_exprs(content) ----
    content,      \* message.content
    pieces,       \* number of pieces the text was composed of
    words,        \* number of short words composed so far
    longs,        \* number of long words composed so far
    lastGap,      \* whether the last piece composed was prose
    layout,       \* how the text was composed: a sequence of piece records
    fpc,          \* "typing" | "found" ("off" when another component runs)
    ranges,       \* list(_find_roll_expr_indices(content))
    idxs_raw,     \* idxs after the first loop (lines 437-451)
    idxs,         \* idxs after both clamp passes (lines 453-461)
    exprs,        \* the tuples yielded (lines 464-475)
    \* ---- _string_search_adv(rollstr) ----
    rollstr,      \* the argument
    rs_chunks,    \* number of chunks the argument was composed of
    apc,          \* "typing" | "done" ("off" when another component runs)
    adv_result,   \* the pair (rollstr, adv) returned
    \* ---- Dice._roll_many(ctx, iterations, roll_str, dc, adv) ----
    rm_pc,        \* where the coroutine stands
    rm_args,      \* [iterations, roll_str, dc, adv]
    rm_parsed,    \* number of d20.parse calls made
    rm_rollers,   \* number of d20.Roller objects (each with its own context) made
    rm_results,   \* the list `results`
    rm_successes, \* the counter `successes`
    rm_render,    \* [header, footer, full, out]: the strings built in lines 144-160
    rm_sent,      \* what ctx.send was called with, in order
    rm_deleted,   \* whether try_delete(ctx.message) was called
    rm_stats,     \* number of Stats.increase_stat calls
    \* ---- Dice.do_inline_rolls(message, roll_exprs) ----
    ir_pc,        \* where the coroutine stands
    ir_exprs,     \* the argument roll_exprs
    ir_i,         \* the candidate the for loop is at (1-based)
    ir_out,       \* the list `out`
    ir_rolled,    \* the candidates roller.roll was called for, in order
    ir_rollers,   \* number of d20.Roller objects made
    ir_replies,   \* what message.reply was called with, in order
    \* ---- on_message / on_reaction_add ----
    rdb,          \* the message ids whose processed key is set in bot.rdb
    onboarded,    \* the user ids whose onboarded.message key is set in bot.rdb
    tasks,        \* the handler coroutines started so far
    delivered,    \* the message ids on_message was dispatched for
    rolled        \* the do_inline_rolls calls made: <<message id, task>>, in order

textVars == <<content, pieces, words, longs, lastGap, layout, fpc, ranges, idxs_raw, idxs, exprs>>
advVars == <<rollstr, rs_chunks, apc, adv_result>>
rmVars == <<rm_pc, rm_args, rm_parsed, rm_rollers, rm_results, rm_successes, rm_render,
            rm_sent, rm_deleted, rm_stats>>
irVars == <<ir_pc, ir_exprs, ir_i, ir_out, ir_rolled, ir_rollers, ir_replies>>
evVars == <<rdb, onboarded, tasks, delivered, rolled>>
vars == <<textVars, advVars, rmVars, irVars, evVars>>

---------------------------------------------------------------------------
\* Bounds of the model.
MaxPieces == 4
MaxWords == 7
MaxLong == 1
LongLen == 124

\* Defaults of _find_inline_exprs.
context_before_default == 5
context_after_default == 2
max_context_len_default == 128

---------------------------------------------------------------------------
\* Python string primitives on sequences of characters.

Min(S) == CHOOSE x \in S : \A y \in S : x <= y
Max(S) == CHOOSE x \in S : \A y \in S : x >= y

\* str.isspace of one character
IsSpace(c) == c \in {" ", "\n", "\t"}

\* s[a:b] for 0 <= a, b <= len(s)
Slice(s, a, b) == IF a >= b THEN <<>> ELSE SubSeq(s, a + 1, b)

\* s.find(sub, start): the lowest offset >= start where sub occurs, or -1
Find(s, sub, start) ==
    LET hits == {i \in start..(Len(s) - Len(sub)) : SubSeq(s, i + 1, i + Len(sub)) = sub}
    IN  IF hits = {} THEN -1 ELSE Min(hits)

\* the offset of the first non-space character at or after i, or len(s)
SkipSpace(s, i) ==
    LET stop == {k \in i..(Len(s) - 1) : ~IsSpace(s[k + 1])}
    IN  IF stop = {} THEN Len(s) ELSE Min(stop)

\* the offset of the first space character at or after i, or len(s)
SkipWord(s, i) ==
    LET stop == {k \in i..(Len(s) - 1) : IsSpace(s[k + 1])}
    IN  IF stop = {} THEN Len(s) ELSE Min(stop)

\* the offset of the last non-space character at or before i, or -1
SkipSpaceBack(s, i) ==
    LET stop == {k \in 0..i : ~IsSpace(s[k + 1])}
    IN  IF stop = {} THEN -1 ELSE Max(stop)

\* the offset of the last space character at or before i, or -1
SkipWordBack(s, i) ==
    LET stop == {k \in 0..i : IsSpace(s[k + 1])}
    IN  IF stop = {} THEN -1 ELSE Max(stop)

\* s.split(maxsplit=n) continued from offset i: at most n words, then the
\* rest of the string from its first non-space character to its end
RECURSIVE SplitFrom(_, _, _)
SplitFrom(s, i, n) ==
    LET j == SkipSpace(s, i)
    IN  IF j = Len(s) THEN <<>>
        ELSE IF n = 0 THEN <<Slice(s, j, Len(s))>>
        ELSE <<Slice(s, j, SkipWord(s, j))>> \o SplitFrom(s, SkipWord(s, j), n - 1)

\* s.split(maxsplit=n)
Split(s, n) == SplitFrom(s, 0, n)

\* s.rsplit(maxsplit=n) continued leftwards from offset i: at most n words
\* taken from the right, then the rest from the start of the string to its
\* last non-space character
RECURSIVE RSplitFrom(_, _, _)
RSplitFrom(s, i, n) ==
    LET j == SkipSpaceBack(s, i)
    IN  IF j = -1 THEN <<>>
        ELSE IF n = 0 THEN <<Slice(s, 0, j + 1)>>
        ELSE RSplitFrom(s, SkipWordBack(s, j), n - 1) \o <<Slice(s, SkipWordBack(s, j) + 1, j + 1)>>

\* s.rsplit(maxsplit=n)
RSplit(s, n) == RSplitFrom(s, Len(s) - 1, n)

\* s.lstrip(), s.rstrip(), s.strip()
LStrip(s) == Slice(s, SkipSpace(s, 0), Len(s))
RStrip(s) == Slice(s, 0, SkipSpaceBack(s, Len(s) - 1) + 1)
Strip(s) == LStrip(RStrip(s))

Ellipsis == <<".", ".", ".">>
OpenDelim == <<"[", "[">>
CloseDelim == <<"]", "]">>

---------------------------------------------------------------------------
\* _find_roll_expr_indices(content): the loop continued with the local `end`.
\* `end` is reassigned to the offset where the closing delimiter starts, and
\* the next search for an opener starts there.

\* a plausible slip: an opener without a closer still yields a candidate
RECURSIVE FindRollExprIndicesKeepDangling(_, _)
FindRollExprIndicesKeepDangling(text, end) ==
    LET start == Find(text, OpenDelim, end)
        close == Find(text, CloseDelim, start)
    IN  IF start = -1 THEN <<>>
        ELSE IF close = -1 THEN << <<start, start + 2, Len(text), Len(text)>> >>
        ELSE << <<start, start + 2, close, close + 2>> >>
             \o FindRollExprIndicesKeepDangling(text, close)

RECURSIVE FindRollExprIndicesFrom(_, _)
FindRollExprIndicesFrom(text, end) ==
    LET start == Find(text, OpenDelim, end)
        close == Find(text, CloseDelim, start)
    IN  IF start = -1 THEN <<>>
        ELSE IF close = -1 THEN <<>>
        ELSE << <<start, start + 2, close, close + 2>> >>
             \o FindRollExprIndicesFrom(text, close)

_find_roll_expr_indices(text) == FindRollExprIndicesFrom(text, 0)

---------------------------------------------------------------------------
\* _find_inline_exprs(content, context_before, context_after, max_context_len)

\* a plausible slip: the word trim of the before-window is left out
BeforeIdxNoTrim(text, start, context_before, max_context_len) ==
    IF start - max_context_len > 0 THEN start - max_context_len ELSE 0

\* lines 439-443: the start of the before-window of the candidate at `start`
BeforeIdx(text, start, context_before, max_context_len) ==
    LET before_idx == IF start - max_context_len > 0 THEN start - max_context_len ELSE 0
        before_fragment == Slice(text, before_idx, start)
        before_bits == RSplit(before_fragment, context_before)
    IN  IF Len(before_bits) > context_before
        THEN before_idx + Len(before_bits[1])
        ELSE before_idx

\* lines 445-449: the end of the after-window of the candidate ending at `end`
AfterIdx(text, end, context_after, max_context_len) ==
    LET content_len == Len(text)
        after_idx == IF end + max_context_len < content_len
                     THEN end + max_context_len ELSE content_len
        after_fragment == Slice(text, end, after_idx)
        after_bits == Split(after_fragment, context_after)
    IN  IF Len(after_bits) > context_after
        THEN after_idx - Len(after_bits[Len(after_bits)])
        ELSE after_idx

\* lines 437-451: idxs as the first loop leaves it, one entry
\* ((before_idx, start), (expr_start, expr_end), (end, after_idx)) per candidate
RawIdxs(text, found, context_before, context_after, max_context_len) ==
    [i \in 1..Len(found) |->
        << <<BeforeIdx(text, found[i][1], context_before, max_context_len), found[i][1]>>,
           <<found[i][2], found[i][3]>>,
           <<found[i][4], AfterIdx(text, found[i][4], context_after, max_context_len)>> >>]

\* a plausible slip: the start boundaries are not clamped
StartBoundariesNoClamp(ix) == ix

\* lines 453-456 ("start boundaries"): every entry after the first gets its
\* before_idx raised to idxs[i - 1][2][0], the previous entry's `end`
StartBoundaries(ix) ==
    [i \in 1..Len(ix) |->
        IF i = 1 THEN ix[i]
        ELSE << <<IF ix[i][1][1] > ix[i - 1][3][1] THEN ix[i][1][1] ELSE ix[i - 1][3][1],
                  ix[i][1][2]>>,
                ix[i][2], ix[i][3] >>]

\* a plausible slip: the end boundaries are not clamped
EndBoundariesNoClamp(ix) == ix

\* lines 458-461 ("end boundaries"): every entry before the last gets its
\* after_idx lowered to idxs[i + 1][0][0], the next entry's before_idx
EndBoundaries(ix) ==
    [i \in 1..Len(ix) |->
        IF i = Len(ix) THEN ix[i]
        ELSE << ix[i][1], ix[i][2],
                <<ix[i][3][1],
                  IF ix[i][3][2] < ix[i + 1][1][1] THEN ix[i][3][2] ELSE ix[i + 1][1][1]>> >>]

\* lines 463-475: the tuples (expr, context_before, context_after) yielded
YieldExprs(text, ix) ==
    [i \in 1..Len(ix) |->
        LET before_idx == ix[i][1][1]
            after_idx == ix[i][3][2]
            cb == LStrip(Slice(text, before_idx, ix[i][1][2]))
            ca == RStrip(Slice(text, ix[i][3][1], after_idx))
        IN  << Strip(Slice(text, ix[i][2][1], ix[i][2][2])),
               IF before_idx > 0 THEN Ellipsis \o cb ELSE cb,
               IF after_idx < Len(text) THEN ca \o Ellipsis ELSE ca >>]

---------------------------------------------------------------------------
\* Composing message.content, piece by piece.

\* n one-letter words separated by single spaces
RECURSIVE WordRun(_)
WordRun(n) == IF n = 0 THEN <<>> ELSE IF n = 1 THEN <<"w">> ELSE <<"w", " ">> \o WordRun(n - 1)

\* a run of prose: n words, with or without a space on both sides
Prose(n, spaced) ==
    IF n = 0 THEN <<" ">>
    ELSE IF spaced THEN <<" ">> \o WordRun(n) \o <<" ">>
    ELSE WordRun(n)

LongWord == [i \in 1..LongLen |-> "w"]
InlineExpr == OpenDelim \o <<"w">> \o CloseDelim

Piece(kind, text) == [kind |-> kind, len |-> Len(text)]

InitText ==
    /\ content = <<>>
    /\ pieces = 0
    /\ words = 0
    /\ longs = 0
    /\ lastGap = FALSE
    /\ layout = <<>>
    /\ fpc = "typing"
    /\ ranges = <<>>
    /\ idxs_raw = <<>>
    /\ idxs = <<>>
    /\ exprs = <<>>

Type(kind, text, n, isGap, isLong) ==
    /\ fpc = "typing"
    /\ pieces < MaxPieces
    /\ content' = content \o text
    /\ pieces' = pieces + 1
    /\ words' = words + n
    /\ longs' = longs + (IF isLong THEN 1 ELSE 0)
    /\ lastGap' = isGap
    /\ layout' = Append(layout, Piece(kind, text))
    /\ UNCHANGED <<fpc, ranges, idxs_raw, idxs, exprs>>
    /\ UNCHANGED <<advVars, rmVars, irVars, evVars>>

TypeProse ==
    \E n \in 0..MaxWords, spaced \in BOOLEAN :
        /\ ~lastGap
        /\ words + n <= MaxWords
        /\ n = 0 => spaced
        /\ Type("prose", Prose(n, spaced), n, TRUE, FALSE)

TypeLongWord ==
    /\ longs < MaxLong
    /\ Type("prose", LongWord, 0, FALSE, TRUE)

TypeInlineExpr ==
    /\ fpc = "typing"
    /\ Type("expr", InlineExpr, 0, FALSE, FALSE)

TypeOpen ==
    /\ fpc = "typing"
    /\ Type("open", OpenDelim, 0, FALSE, FALSE)

TypeClose ==
    /\ fpc = "typing"
    /\ Type("close", CloseDelim, 0, FALSE, FALSE)

\* line 310: roll_exprs = list(_find_inline_exprs(message.content))
FindInlineExprs ==
    /\ fpc = "typing"
    /\ fpc' = "found"
    /\ ranges' = _find_roll_expr_indices(content)
    /\ idxs_raw' = RawIdxs(content, ranges', context_before_default,
                           context_after_default, max_context_len_default)
    /\ idxs' = EndBoundaries(StartBoundaries(idxs_raw'))
    /\ exprs' = YieldExprs(content, idxs')
    /\ UNCHANGED <<content, pieces, words, longs, lastGap, layout>>
    /\ UNCHANGED <<advVars, rmVars, irVars, evVars>>

NextText ==
    \/ TypeProse
    \/ TypeLongWord
    \/ TypeInlineExpr
    \/ TypeOpen
    \/ TypeClose
    \/ FindInlineExprs

---------------------------------------------------------------------------
\* Helpers of the properties of the extraction functions.

\* the number of whitespace-separated tokens of a text
CountTokens(s) ==
    Cardinality({k \in 1..Len(s) : ~IsSpace(s[k]) /\ (k = 1 \/ IsSpace(s[k - 1]))})

\* a returned context without its ellipsis marker
WithoutLeadingEllipsis(s) ==
    IF Len(s) >= 3 /\ SubSeq(s, 1, 3) = Ellipsis THEN SubSeq(s, 4, Len(s)) ELSE s

WithoutTrailingEllipsis(s) ==
    IF Len(s) >= 3 /\ SubSeq(s, Len(s) - 2, Len(s)) = Ellipsis
    THEN SubSeq(s, 1, Len(s) - 3) ELSE s

\* the offsets of the text that entry e of idxs quotes as context
Quoted(e) == (e[1][1]..(e[1][2] - 1)) \cup (e[3][1]..(e[3][2] - 1))

\* Reading the composed text as pairs and filler: the ranges of the pairs of
\* a text made of filler without brackets and well-formed pairs (an inline
\* expression, or an opener, prose and a closer), in order; `ok` is FALSE for
\* a text that is not of this form, `dangling` tells whether an opener
\* without a closer follows the last pair.
RECURSIVE ReadPairs(_, _, _, _, _, _)
ReadPairs(lay, k, off, inside, openAt, acc) ==
    IF k > Len(lay) THEN [ok |-> TRUE, pairs |-> acc, dangling |-> inside]
    ELSE LET p == lay[k]
         IN  CASE p.kind = "prose" ->
                    ReadPairs(lay, k + 1, off + p.len, inside, openAt, acc)
               [] p.kind = "expr" ->
                    IF inside THEN [ok |-> FALSE, pairs |-> acc, dangling |-> FALSE]
                    ELSE ReadPairs(lay, k + 1, off + p.len, FALSE, 0,
                                   Append(acc, <<off, off + 2, off + p.len - 2, off + p.len>>))
               [] p.kind = "open" ->
                    IF inside THEN [ok |-> FALSE, pairs |-> acc, dangling |-> FALSE]
                    ELSE ReadPairs(lay, k + 1, off + p.len, TRUE, off, acc)
               [] p.kind = "close" ->
                    IF ~inside THEN [ok |-> FALSE, pairs |-> acc, dangling |-> FALSE]
                    ELSE ReadPairs(lay, k + 1, off + p.len, FALSE, 0,
                                   Append(acc, <<openAt, openAt + 2, off, off + p.len>>))

PairsOf(lay) == ReadPairs(lay, 1, 0, FALSE, 0, <<>>)

---------------------------------------------------------------------------
\* C1: in the final idxs the context windows of two different candidates
\* never share a character of the text: for consecutive candidates the
\* after-window of the first ends at or before the start of the
\* before-window of the second, which starts at or after the first's
\* closing delimiter, and the after-window ends at or before the second's
\* opening delimiter.
C1_WindowsDisjoint ==
    fpc = "found" =>
        /\ \A i \in 1..(Len(idxs) - 1) :
              /\ idxs[i][3][2] <= idxs[i + 1][1][1]
              /\ idxs[i + 1][1][1] >= ranges[i][4]
              /\ idxs[i][3][2] <= ranges[i + 1][1]
        /\ \A i, j \in 1..Len(idxs) : i # j => Quoted(idxs[i]) \cap Quoted(idxs[j]) = {}

\* two candidates whose windows overlapped before the clamp
C1_Witness ==
    /\ fpc = "found"
    /\ Len(idxs) >= 2
    /\ \E i \in 1..(Len(idxs) - 1) :
          /\ Quoted(idxs_raw[i]) \cap Quoted(idxs_raw[i + 1]) # {}
          /\ idxs[i][3][2] > idxs[i][3][1]

\* C2 as stated: the final before-window of every candidate after the first
\* starts no earlier than the end of the previous candidate's pre-clamp
\* after-window.
C2_BeforeStartsAfterPreviousAfterWindow ==
    fpc = "found" =>
        \A i \in 2..Len(idxs) : idxs[i][1][1] >= idxs_raw[i - 1][3][2]

\* C2 as the code has it: the final before-window of every candidate after
\* the first starts at the later of its own pre-clamp start and the end of
\* the previous candidate's closing delimiter, so never inside or before the
\* previous candidate.
C2_BeforeStartsAfterPreviousCloser ==
    fpc = "found" =>
        \A i \in 2..Len(idxs) :
            /\ idxs[i][1][1] >= ranges[i - 1][4]
            /\ idxs[i][1][1] \in {idxs_raw[i][1][1], ranges[i - 1][4]}
            /\ idxs[i][1][1] >= idxs_raw[i][1][1]

\* a candidate whose before-window reached back past the previous candidate
C2_Witness ==
    /\ fpc = "found"
    /\ \E i \in 2..Len(idxs) :
          /\ idxs_raw[i][1][1] < ranges[i - 1][4]
          /\ idxs[i][1][1] = ranges[i - 1][4]
          /\ idxs[i][1][1] < idxs[i][1][2]

\* C3: for a text made of k well-formed pairs separated by filler without
\* brackets, _find_roll_expr_indices yields exactly the k ranges of the
\* pairs, in strictly increasing order, and an opener without a closer after
\* the last pair adds nothing.
C3_LocatorFindsThePairs ==
    (fpc = "found" /\ PairsOf(layout).ok) =>
        /\ ranges = PairsOf(layout).pairs
        /\ \A i \in 1..(Len(ranges) - 1) : ranges[i][4] <= ranges[i + 1][1]
        /\ \A i \in 1..Len(ranges) :
              /\ SubSeq(content, ranges[i][1] + 1, ranges[i][2]) = OpenDelim
              /\ SubSeq(content, ranges[i][3] + 1, ranges[i][4]) = CloseDelim

\* two pairs followed by an opener that is never closed
C3_Witness ==
    /\ fpc = "found"
    /\ PairsOf(layout).ok
    /\ PairsOf(layout).dangling
    /\ Len(PairsOf(layout).pairs) = 2
    /\ Len(ranges) = 2

\* C10: with the defaults, the before-context of every candidate holds at
\* most 5 tokens and spans at most 128 characters, and its after-context at
\* most 2 tokens and 128 characters, before the clamp, after it, and in the
\* returned texts with their ellipsis markers taken off.
C10_WordTrim ==
    fpc = "found" =>
        \A i \in 1..Len(idxs) :
            /\ \A ix \in {idxs_raw, idxs} :
                  /\ CountTokens(Slice(content, ix[i][1][1], ix[i][1][2])) <= 5
                  /\ ix[i][1][2] - ix[i][1][1] <= 128
                  /\ ix[i][1][2] - ix[i][1][1] >= 0
                  /\ CountTokens(Slice(content, ix[i][3][1], ix[i][3][2])) <= 2
                  /\ ix[i][3][2] - ix[i][3][1] <= 128
                  /\ ix[i][3][2] - ix[i][3][1] >= 0
            /\ CountTokens(WithoutLeadingEllipsis(exprs[i][2])) <= 5
            /\ Len(WithoutLeadingEllipsis(exprs[i][2])) <= 128
            /\ CountTokens(WithoutTrailingEllipsis(exprs[i][3])) <= 2
            /\ Len(WithoutTrailingEllipsis(exprs[i][3])) <= 128

\* a candidate with more than 5 words in front of it, of which 5 are kept
C10_Witness ==
    /\ fpc = "found"
    /\ \E i \in 1..Len(idxs) :
          /\ CountTokens(Slice(content, 0, ranges[i][1])) > 5
          /\ CountTokens(WithoutLeadingEllipsis(exprs[i][2])) = 5
          /\ SubSeq(exprs[i][2], 1, 3) = Ellipsis

---------------------------------------------------------------------------
\* _string_search_adv(rollstr)

\* Bound of the model: chunks an argument is composed of.
MaxChunks == 5

AdvToken == <<"a", "d", "v">>
DisToken == <<"d", "i", "s">>
Dice1d20 == <<"1", "d", "2", "0">>

\* whether t occurs in s at offset i
OccursAt(s, t, i) == i >= 0 /\ i + Len(t) <= Len(s) /\ SubSeq(s, i + 1, i + Len(t)) = t

\* the tail (\s+|$) of the patterns matches at offset i
TailMatches(s, i) == i = Len(s) \/ (i < Len(s) /\ IsSpace(s[i + 1]))

\* re.search(r'(^|\s+)(t1|t2|..)(\s+|$)', s) is not None, for the tokens toks
SearchWholeWord(s, toks) ==
    \E t \in toks : \E i \in 0..Len(s) :
        /\ OccursAt(s, t, i)
        /\ (i = 0 \/ IsSpace(s[i]))
        /\ TailMatches(s, i + Len(t))

\* a plausible slip: the substitution removes the token and keeps the
\* whitespace that follows it
RECURSIVE SubAdvDisKeepSpace(_, _)
SubAdvDisKeepSpace(s, i) ==
    IF i >= Len(s) THEN <<>>
    ELSE IF (OccursAt(s, AdvToken, i) \/ OccursAt(s, DisToken, i)) /\ TailMatches(s, i + 3)
         THEN SubAdvDisKeepSpace(s, i + 3)
         ELSE <<s[i + 1]>> \o SubAdvDisKeepSpace(s, i + 1)

\* re.sub(r'(adv|dis)(\s+|$)', '', s) continued from offset i: the leftmost
\* match at or after i is dropped (the token and the whole run of whitespace
\* after it) and the scan goes on behind it
RECURSIVE SubAdvDis(_, _)
SubAdvDis(s, i) ==
    IF i >= Len(s) THEN <<>>
    ELSE IF (OccursAt(s, AdvToken, i) \/ OccursAt(s, DisToken, i)) /\ TailMatches(s, i + 3)
         THEN SubAdvDis(s, SkipSpace(s, i + 3))
         ELSE <<s[i + 1]>> \o SubAdvDis(s, i + 1)

\* lines 423-428
_string_search_adv(s) ==
    IF SearchWholeWord(s, {AdvToken, DisToken})
    THEN << SubAdvDis(s, 0),
            IF SearchWholeWord(s, {AdvToken}) THEN "ADV" ELSE "DIS" >>
    ELSE <<s, "NONE">>

InitAdv ==
    /\ rollstr = <<>>
    /\ rs_chunks = 0
    /\ apc = "typing"
    /\ adv_result = <<>>

\* the argument grows by one chunk
TypeChunk ==
    \E c \in {AdvToken, DisToken, <<" ">>, Dice1d20} :
        /\ apc = "typing"
        /\ rs_chunks < MaxChunks
        /\ rollstr' = rollstr \o c
        /\ rs_chunks' = rs_chunks + 1
        /\ UNCHANGED <<apc, adv_result>>
        /\ UNCHANGED <<textVars, rmVars, irVars, evVars>>

\* lines 118, 125: rollStr, adv = _string_search_adv(rollStr)
StringSearchAdv ==
    /\ apc = "typing"
    /\ apc' = "done"
    /\ adv_result' = _string_search_adv(rollstr)
    /\ UNCHANGED <<rollstr, rs_chunks>>
    /\ UNCHANGED <<textVars, rmVars, irVars, evVars>>

NextAdv ==
    \/ TypeChunk
    \/ StringSearchAdv

\* ---- properties of _string_search_adv ----

\* the offsets of s the claim of C4 removes: the whole-word occurrences of t
WholeWordOffsets(s, t) ==
    {k \in 0..(Len(s) - 1) :
        \E i \in 0..k :
            /\ k < i + Len(t)
            /\ OccursAt(s, t, i)
            /\ (i = 0 \/ IsSpace(s[i]))
            /\ TailMatches(s, i + Len(t))}

\* the offsets of s the substitution removes: every adv or dis that is
\* followed by whitespace or by the end, and the run of whitespace after it
SubOffsets(s) ==
    {k \in 0..(Len(s) - 1) :
        \E i \in 0..k :
            /\ OccursAt(s, AdvToken, i) \/ OccursAt(s, DisToken, i)
            /\ TailMatches(s, i + 3)
            /\ \A m \in (i + 3)..k : IsSpace(s[m + 1])}

\* s without the characters at the offsets R
Without(s, R) ==
    LET kept == {k \in 0..(Len(s) - 1) : k \notin R}
    IN  [n \in 1..Cardinality(kept) |->
            s[(CHOOSE k \in kept : Cardinality({m \in kept : m < k}) = n - 1) + 1]]

DetectedToken(s) ==
    IF SearchWholeWord(s, {AdvToken}) THEN AdvToken ELSE DisToken

ModeOf(s) ==
    IF SearchWholeWord(s, {AdvToken}) THEN "ADV"
    ELSE IF SearchWholeWord(s, {DisToken}) THEN "DIS" ELSE "NONE"

\* C4 as stated: when a mode is detected the returned string is the input
\* without the whole-word occurrences of the detected token and with every
\* other character unchanged ("1d20 dis 1d20" gives "1d20  1d20" with two
\* spaces); without a whole-word token the input is returned unchanged with
\* mode NONE.
C4_OnlyDetectedWholeWordsRemoved ==
    apc = "done" =>
        /\ adv_result[2] = ModeOf(rollstr)
        /\ adv_result[1] = IF ModeOf(rollstr) = "NONE" THEN rollstr
                           ELSE Without(rollstr, WholeWordOffsets(rollstr, DetectedToken(rollstr)))

\* C4 as the code has it: the mode is Advantage when adv occurs as a whole
\* word, else Disadvantage when dis does, else None; with a mode detected,
\* every adv and every dis that is followed by whitespace or by the end of
\* the string is removed together with the run of whitespace after it, and
\* all other characters stay in order ("1d20 adv" gives "1d20 ", "1d20 dis
\* 1d20" gives "1d20 1d20" with one space); with no mode the string is
\* unchanged ("1d20", "adv1d20").
C4_AdvAndDisRemovedWithTrailingSpace ==
    apc = "done" =>
        /\ adv_result[2] = ModeOf(rollstr)
        /\ adv_result[1] = IF ModeOf(rollstr) = "NONE" THEN rollstr
                           ELSE Without(rollstr, SubOffsets(rollstr))
        /\ rollstr = Dice1d20 \o <<" ">> \o AdvToken
              => adv_result = <<Dice1d20 \o <<" ">>, "ADV">>
        /\ rollstr = Dice1d20 \o <<" ">> \o DisToken \o <<" ">> \o Dice1d20
              => adv_result = <<Dice1d20 \o <<" ">> \o Dice1d20, "DIS">>
        /\ rollstr \in {Dice1d20, AdvToken \o Dice1d20}
              => adv_result = <<rollstr, "NONE">>

\* "1d20 dis 1d20": a whole-word dis in the middle of the string
C4_Witness ==
    /\ apc = "done"
    /\ rollstr = Dice1d20 \o <<" ">> \o DisToken \o <<" ">> \o Dice1d20
    /\ adv_result[2] = "DIS"
    /\ Len(adv_result[1]) = 9

---------------------------------------------------------------------------
\* Dice._roll_many(ctx, iterations, roll_str, dc=None, adv=None)

\* Bounds of the model: the iteration counts tried below the limits with an
\* expression whose total varies, and the length (in 8-character units) of
\* the longest rendering of one roll.
MaxIter == 3
BigUnits == 200

\* line 129
MinIterations == 1
MaxIterations == 100
\* line 158
OutputBudget == 1500

RejectionText == "Too many or too few iterations."
Mention == "<@1>"

\* an optional threshold: dc=None, or dc=n
NoDc == [given |-> FALSE, value |-> 0]
Dc(n) == [given |-> TRUE, value |-> n]

RECURSIVE Rep(_, _)
Rep(str, n) ==
    IF n = 0 THEN ""
    ELSE IF n = 1 THEN str
    ELSE Rep(str, n \div 2) \o Rep(str, n - (n \div 2))

\* The expressions tried: the text, how the engine shows the rolled dice, the
\* totals a roll can have, the comment d20.parse finds, whether d20.parse
\* accepts the text and whether a roll of it raises a RollError.
RollExpr(src, shown, totals, comment, valid, fails) ==
    [src |-> src, shown |-> shown, totals |-> totals, comment |-> comment,
     valid |-> valid, fails |-> fails]

RollExprs ==
    { RollExpr("1+1", "1 + 1", {2}, "", TRUE, FALSE),
      RollExpr("1d2", "1d2", {1, 2}, "", TRUE, FALSE),
      RollExpr("4d6 hit", "4d6 (4, 3, 5, 2)", {14}, "hit", TRUE, FALSE),
      RollExpr("400d20", Rep("(20, 1) ", BigUnits), {4200}, "", TRUE, FALSE),
      RollExpr("1d(", "", {0}, "", FALSE, FALSE),
      RollExpr("1/0", "", {0}, "", TRUE, TRUE) }

IterationValues == (-1..MaxIter) \cup {MaxIterations, MaxIterations + 1}

\* str(res) of a roll of e with the given total
Render(e, total) ==
    IF Cardinality(e.totals) > 1
    THEN e.shown \o " (" \o ToString(total) \o ") = " \o ToString(total)
    ELSE e.shown \o " = " \o ToString(total)

\* a plausible slip: the lower limit is off by one
IterationsOutOfRangeFromZero(n) == n < 0 \/ n > MaxIterations

\* line 129
IterationsOutOfRange(n) == n < MinIterations \/ n > MaxIterations

\* a plausible slip: a total equal to the threshold does not count
MeetsDcStrictly(total, dc) == dc.given /\ total > dc.value

\* line 140: dc is not None and res.total >= dc
MeetsDc(total, dc) == dc.given /\ total >= dc.value

\* sum(o.total for o in results[lo-1:hi]), summed by halves
RECURSIVE SumTotalsIn(_, _, _)
SumTotalsIn(rs, lo, hi) ==
    IF lo > hi THEN 0
    ELSE IF lo = hi THEN rs[lo].total
    ELSE SumTotalsIn(rs, lo, (lo + hi) \div 2) + SumTotalsIn(rs, (lo + hi) \div 2 + 1, hi)

\* sum(o.total for o in results)
SumTotals(rs) == SumTotalsIn(rs, 1, Len(rs))

\* '\n'.join(str(o) for o in results[lo-1:hi]), joined by halves
RECURSIVE JoinResultsIn(_, _, _)
JoinResultsIn(rs, lo, hi) ==
    IF lo > hi THEN ""
    ELSE IF lo = hi THEN rs[lo].text
    ELSE JoinResultsIn(rs, lo, (lo + hi) \div 2) \o "\n"
         \o JoinResultsIn(rs, (lo + hi) \div 2 + 1, hi)

\* '\n'.join(str(o) for o in results)
JoinResults(rs) == JoinResultsIn(rs, 1, Len(rs))

\* lines 144-152
HeaderOf(args) ==
    LET header == IF ~args.dc.given
                  THEN "Rolling " \o ToString(args.iterations) \o " iterations..."
                  ELSE "Rolling " \o ToString(args.iterations) \o " iterations, DC "
                       \o ToString(args.dc.value) \o "..."
    IN  IF args.roll_str.comment # "" THEN args.roll_str.comment \o ": " \o header ELSE header

\* lines 144-149
FooterOf(args, results, successes) ==
    IF ~args.dc.given
    THEN ToString(SumTotals(results)) \o " total."
    ELSE ToString(successes) \o " successes, " \o ToString(SumTotals(results)) \o " total."

\* line 156
FullOutput(header, results, footer) == header \o "\n" \o JoinResults(results) \o "\n" \o footer

\* lines 159-160
ShortOutput(header, results, footer) ==
    header \o "\n" \o results[1].text \o "\n[" \o ToString(Len(results) - 1)
        \o " results omitted for output size.]\n" \o footer

InitRollMany ==
    /\ rm_pc = "call"
    /\ rm_args \in {a \in [iterations : IterationValues, roll_str : RollExprs,
                          dc : {NoDc, Dc(2), Dc(5)}, adv : {"None", "ADV"}] :
                        Cardinality(a.roll_str.totals) > 1 => a.iterations <= MaxIter}
    /\ rm_parsed = 0
    /\ rm_rollers = 0
    /\ rm_results = <<>>
    /\ rm_successes = 0
    /\ rm_render = [header |-> "", footer |-> "", full |-> "", out |-> ""]
    /\ rm_sent = <<>>
    /\ rm_deleted = FALSE
    /\ rm_stats = 0

\* lines 129-130: the request is rejected
RollManyReject ==
    /\ rm_pc = "call"
    /\ IterationsOutOfRange(rm_args.iterations)
    /\ rm_sent' = Append(rm_sent, RejectionText)
    /\ rm_pc' = "rejected"
    /\ UNCHANGED <<rm_args, rm_parsed, rm_rollers, rm_results, rm_successes, rm_render,
                   rm_deleted, rm_stats>>
    /\ UNCHANGED <<textVars, advVars, irVars, evVars>>

\* lines 131-136: the request is accepted; d20.parse raises on a malformed
\* expression, and nothing in _roll_many catches it
RollManyParse ==
    /\ rm_pc = "call"
    /\ ~IterationsOutOfRange(rm_args.iterations)
    /\ rm_args' = [rm_args EXCEPT !.adv = IF @ = "None" THEN "NONE" ELSE @]
    /\ rm_results' = <<>>
    /\ rm_successes' = 0
    /\ rm_parsed' = rm_parsed + 1
    /\ IF rm_args.roll_str.valid
       THEN rm_rollers' = rm_rollers + 1 /\ rm_pc' = "loop"
       ELSE rm_rollers' = rm_rollers /\ rm_pc' = "raised"
    /\ UNCHANGED <<rm_render, rm_sent, rm_deleted, rm_stats>>
    /\ UNCHANGED <<textVars, advVars, irVars, evVars>>

\* lines 138-142: one iteration of the loop; a RollError raised by the roll
\* is not caught
RollManyIteration ==
    /\ rm_pc = "loop"
    /\ Len(rm_results) < rm_args.iterations
    /\ IF rm_args.roll_str.fails
       THEN rm_pc' = "raised" /\ UNCHANGED <<rm_results, rm_successes>>
       ELSE \E total \in rm_args.roll_str.totals :
               /\ rm_successes' = IF MeetsDc(total, rm_args.dc)
                                  THEN rm_successes + 1 ELSE rm_successes
               /\ rm_results' = Append(rm_results,
                                   [total |-> total,
                                    text |-> Render(rm_args.roll_str, total),
                                    serial |-> Len(rm_results) + 1,
                                    roller |-> rm_rollers])
               /\ rm_pc' = "loop"
    /\ UNCHANGED <<rm_args, rm_parsed, rm_rollers, rm_render, rm_sent, rm_deleted, rm_stats>>
    /\ UNCHANGED <<textVars, advVars, irVars, evVars>>

\* lines 144-160: the loop is over and the output is built
RollManyRender ==
    /\ rm_pc = "loop"
    /\ Len(rm_results) >= rm_args.iterations
    /\ LET header == HeaderOf(rm_args)
           footer == FooterOf(rm_args, rm_results, rm_successes)
           full == FullOutput(header, rm_results, footer)
       IN  rm_render' = [header |-> header, footer |-> footer, full |-> full,
                         out |-> IF Len(full) > OutputBudget
                                 THEN ShortOutput(header, rm_results, footer)
                                 ELSE full]
    /\ rm_pc' = "rendered"
    /\ UNCHANGED <<rm_args, rm_parsed, rm_rollers, rm_results, rm_successes, rm_sent,
                   rm_deleted, rm_stats>>
    /\ UNCHANGED <<textVars, advVars, irVars, evVars>>

\* line 162: await try_delete(ctx.message)
RollManyDelete ==
    /\ rm_pc = "rendered"
    /\ rm_deleted' = TRUE
    /\ rm_pc' = "deleted"
    /\ UNCHANGED <<rm_args, rm_parsed, rm_rollers, rm_results, rm_successes, rm_render,
                   rm_sent, rm_stats>>
    /\ UNCHANGED <<textVars, advVars, irVars, evVars>>

\* line 163: await ctx.send(f"{ctx.author.mention}\n{out}", ...)
RollManySend ==
    /\ rm_pc = "deleted"
    /\ rm_sent' = Append(rm_sent, Mention \o "\n" \o rm_render.out)
    /\ rm_pc' = "sent"
    /\ UNCHANGED <<rm_args, rm_parsed, rm_rollers, rm_results, rm_successes, rm_render,
                   rm_deleted, rm_stats>>
    /\ UNCHANGED <<textVars, advVars, irVars, evVars>>

\* line 164: await Stats.increase_stat(ctx, "dice_rolled_life")
RollManyStat ==
    /\ rm_pc = "sent"
    /\ rm_stats' = rm_stats + 1
    /\ rm_pc' = "done"
    /\ UNCHANGED <<rm_args, rm_parsed, rm_rollers, rm_results, rm_successes, rm_render,
                   rm_sent, rm_deleted>>
    /\ UNCHANGED <<textVars, advVars, irVars, evVars>>

NextRollMany ==
    \/ RollManyReject
    \/ RollManyParse
    \/ RollManyIteration
    \/ RollManyRender
    \/ RollManyDelete
    \/ RollManySend
    \/ RollManyStat

\* ---- properties of _roll_many ----

RollManyBuilt == rm_pc \in {"rendered", "deleted", "sent", "done"}

\* the indexes of the results whose total is at least n
AtLeast(rs, n) == {i \in 1..Len(rs) : rs[i].total >= n}

\* the sum of the totals of the results: for every value a total takes, the
\* value times the number of results that have it
RECURSIVE WeightedSum(_, _)
WeightedSum(rs, values) ==
    IF values = {} THEN 0
    ELSE LET v == CHOOSE x \in values : TRUE
         IN  v * Cardinality({i \in 1..Len(rs) : rs[i].total = v})
             + WeightedSum(rs, values \ {v})

TotalOf(rs) == WeightedSum(rs, {rs[i].total : i \in 1..Len(rs)})

\* C6: whenever the full rendering exceeds 1500 characters the body is the
\* header, the first result, the line counting the omitted results and the
\* footer, and the body that is sent never exceeds 1500 characters.
C6_BodyWithinBudget ==
    RollManyBuilt =>
        /\ Len(rm_render.full) > 1500 =>
              rm_render.out = rm_render.header \o "\n" \o rm_results[1].text \o "\n["
                                \o ToString(rm_args.iterations - 1)
                                \o " results omitted for output size.]\n" \o rm_render.footer
        /\ Len(rm_render.full) <= 1500 => rm_render.out = rm_render.full
        /\ Len(rm_render.out) <= 1500
        /\ rm_pc \in {"sent", "done"} => rm_sent = <<Mention \o "\n" \o rm_render.out>>

\* C7: a call with iterations < 1 or > 100 ends rejected with exactly one
\* message, the rejection, and with no parse, no roller, no roll, no deletion
\* and no statistics update; a call with iterations in 1..100 is never
\* rejected.
C7_OutOfRangeRejected ==
    rm_pc \notin {"off", "call"} =>
        IF rm_args.iterations < 1 \/ rm_args.iterations > 100
        THEN /\ rm_pc = "rejected"
             /\ rm_sent = <<"Too many or too few iterations.">>
             /\ rm_parsed = 0
             /\ rm_rollers = 0
             /\ rm_results = <<>>
             /\ ~rm_deleted
             /\ rm_stats = 0
        ELSE /\ rm_pc # "rejected"
             /\ \A k \in 1..Len(rm_sent) : rm_sent[k] # "Too many or too few iterations."
             /\ rm_parsed = 1

\* iterations = 101 was rejected
C7_Witness ==
    /\ rm_pc = "rejected"
    /\ rm_args.iterations = 101
    /\ Len(rm_sent) = 1

\* C9: a call with N in 1..100 that builds its output has parsed once, made
\* one roller and rolled N times with it, the results kept in roll order;
\* the footer holds the sum of the N totals, preceded by the number of totals
\* >= dc when a dc is given and by nothing when none is (N = 3 with every
\* total 2: "6 total."; with dc = 5: "0 successes, 6 total.").
C9_TallyAndFooter ==
    /\ rm_pc = "loop" =>
          /\ Len(rm_results) <= rm_args.iterations
          /\ \A i \in 1..Len(rm_results) : rm_results[i].serial = i
    /\ RollManyBuilt =>
        LET n == rm_args.iterations
            sum == TotalOf(rm_results)
            hits == Cardinality(AtLeast(rm_results, rm_args.dc.value))
        IN  /\ n \in 1..100
            /\ Len(rm_results) = n
            /\ rm_parsed = 1
            /\ rm_rollers = 1
            /\ \A i \in 1..n : rm_results[i].serial = i /\ rm_results[i].roller = 1
            /\ rm_args.dc.given =>
                  /\ rm_successes = hits
                  /\ rm_render.footer = ToString(hits) \o " successes, " \o ToString(sum) \o " total."
            /\ ~rm_args.dc.given => rm_render.footer = ToString(sum) \o " total."
            /\ (n = 3 /\ \A i \in 1..n : rm_results[i].total = 2) =>
                  rm_render.footer = IF ~rm_args.dc.given THEN "6 total."
                                     ELSE IF rm_args.dc.value = 5 THEN "0 successes, 6 total."
                                     ELSE "3 successes, 6 total."

\* three rolls against dc 2, two of which meet it
C9_Witness ==
    /\ rm_pc = "done"
    /\ rm_args.iterations = 3
    /\ rm_args.dc = Dc(2)
    /\ rm_successes = 2
    /\ rm_render.footer = "2 successes, 5 total."

---------------------------------------------------------------------------
\* Dice.do_inline_rolls(message, roll_exprs)

\* Bound of the model: the candidates of one message.
MaxExprs == 3

\* the expression text of candidate i
ExprText(i) == <<"d", ToString(i)>>

\* the contexts tried; a context can hold line breaks of the message
ContextsBefore == {<<>>, <<"a", "\n", "b", " ">>}
ContextsAfter == {<<>>, <<" ", "c", "\n", "d">>}

\* result.result of a roll of expr, and str(e) of the RollError a roll raises
ResultText(expr) == expr \o <<"=", "7">>
ErrorText(expr) == <<"!">> \o expr

\* s.replace('\n', ' ')
ReplaceNewlines(s) == [k \in 1..Len(s) |-> IF s[k] = "\n" THEN " " ELSE s[k]]

\* '\n'.join(out)
RECURSIVE JoinLines(_)
JoinLines(out) ==
    IF out = <<>> THEN <<>>
    ELSE IF Len(out) = 1 THEN out[1]
    ELSE out[1] \o <<"\n">> \o JoinLines(Tail(out))

\* lines 361-362, 369, 371: f"{context_before}({text}){context_after}"
OutLine(e, text) ==
    ReplaceNewlines(e[2]) \o <<"(">> \o text \o <<")">> \o ReplaceNewlines(e[3])

InitInlineRolls ==
    /\ ir_pc = "call"
    /\ \E n \in 1..MaxExprs :
          ir_exprs \in {es \in [1..n -> {ExprText(i) : i \in 1..n} \X ContextsBefore \X ContextsAfter] :
                           \A i \in 1..n : es[i][1] = ExprText(i)}
    /\ ir_i = 0
    /\ ir_out = <<>>
    /\ ir_rolled = <<>>
    /\ ir_rollers = 0
    /\ ir_replies = <<>>

\* lines 358-359: out = [], one roller with one PersistentRollContext
InlineRollsStart ==
    /\ ir_pc = "call"
    /\ ir_out' = <<>>
    /\ ir_rollers' = ir_rollers + 1
    /\ ir_i' = 1
    /\ ir_pc' = "loop"
    /\ UNCHANGED <<ir_exprs, ir_rolled, ir_replies>>
    /\ UNCHANGED <<textVars, advVars, rmVars, evVars>>

\* a plausible slip: a syntax error leaves the loop (break for continue)
InlineRollSyntaxErrorBreaks ==
    /\ ir_pc = "loop"
    /\ ir_i <= Len(ir_exprs)
    /\ ir_rolled' = Append(ir_rolled, <<ir_i, "syntax", ir_rollers>>)
    /\ ir_i' = Len(ir_exprs) + 1
    /\ UNCHANGED <<ir_pc, ir_exprs, ir_out, ir_rollers, ir_replies>>
    /\ UNCHANGED <<textVars, advVars, rmVars, evVars>>

\* lines 365-367: the roll raises d20.RollSyntaxError; continue
InlineRollSyntaxError ==
    /\ ir_pc = "loop"
    /\ ir_i <= Len(ir_exprs)
    /\ ir_rolled' = Append(ir_rolled, <<ir_i, "syntax", ir_rollers>>)
    /\ ir_i' = ir_i + 1
    /\ UNCHANGED <<ir_pc, ir_exprs, ir_out, ir_rollers, ir_replies>>
    /\ UNCHANGED <<textVars, advVars, rmVars, evVars>>

\* lines 365, 368-369: the roll raises another d20.RollError
InlineRollError ==
    /\ ir_pc = "loop"
    /\ ir_i <= Len(ir_exprs)
    /\ ir_rolled' = Append(ir_rolled, <<ir_i, "error", ir_rollers>>)
    /\ ir_out' = Append(ir_out, OutLine(ir_exprs[ir_i], ErrorText(ir_exprs[ir_i][1])))
    /\ ir_i' = ir_i + 1
    /\ UNCHANGED <<ir_pc, ir_exprs, ir_rollers, ir_replies>>
    /\ UNCHANGED <<textVars, advVars, rmVars, evVars>>

\* lines 365, 370-371: the roll succeeds
InlineRollResult ==
    /\ ir_pc = "loop"
    /\ ir_i <= Len(ir_exprs)
    /\ ir_rolled' = Append(ir_rolled, <<ir_i, "result", ir_rollers>>)
    /\ ir_out' = Append(ir_out, OutLine(ir_exprs[ir_i], ResultText(ir_exprs[ir_i][1])))
    /\ ir_i' = ir_i + 1
    /\ UNCHANGED <<ir_pc, ir_exprs, ir_rollers, ir_replies>>
    /\ UNCHANGED <<textVars, advVars, rmVars, evVars>>

\* lines 373-374: nothing to say
InlineReturnSilently ==
    /\ ir_pc = "loop"
    /\ ir_i > Len(ir_exprs)
    /\ ir_out = <<>>
    /\ ir_pc' = "returned"
    /\ UNCHANGED <<ir_exprs, ir_i, ir_out, ir_rolled, ir_rollers, ir_replies>>
    /\ UNCHANGED <<textVars, advVars, rmVars, evVars>>

\* line 376: await message.reply('\n'.join(out))
InlineReply ==
    /\ ir_pc = "loop"
    /\ ir_i > Len(ir_exprs)
    /\ ir_out # <<>>
    /\ ir_replies' = Append(ir_replies, JoinLines(ir_out))
    /\ ir_pc' = "replied"
    /\ UNCHANGED <<ir_exprs, ir_i, ir_out, ir_rolled, ir_rollers>>
    /\ UNCHANGED <<textVars, advVars, rmVars, evVars>>

NextInlineRolls ==
    \/ InlineRollsStart
    \/ InlineRollSyntaxError
    \/ InlineRollError
    \/ InlineRollResult
    \/ InlineReturnSilently
    \/ InlineReply

\* ---- properties of do_inline_rolls ----

\* the lines of a text, cut at its line breaks
RECURSIVE LinesOf(_)
LinesOf(s) ==
    LET brk == {k \in 1..Len(s) : s[k] = "\n"}
    IN  IF brk = {} THEN <<s>>
        ELSE <<SubSeq(s, 1, Min(brk) - 1)>> \o LinesOf(SubSeq(s, Min(brk) + 1, Len(s)))

\* whether t occurs somewhere in s
Contains(s, t) == \E k \in 0..(Len(s) - Len(t)) : SubSeq(s, k + 1, k + Len(t)) = t

\* the roll calls that did not end in a syntax error, in order
RECURSIVE Spoken(_)
Spoken(calls) ==
    IF calls = <<>> THEN <<>>
    ELSE IF Head(calls)[2] = "syntax" THEN Spoken(Tail(calls))
    ELSE <<Head(calls)>> \o Spoken(Tail(calls))

\* C8: when do_inline_rolls ends, every candidate was rolled once, in order
\* and with the one roller, whatever the earlier rolls raised; the reply has
\* exactly one line per candidate whose roll raised no syntax error, in
\* candidate order, an error line for a roll error and a result line
\* otherwise; and no reply is sent when every roll raised a syntax error.
C8_OneLinePerSpokenCandidate ==
    ir_pc \in {"replied", "returned"} =>
        LET spoken == Spoken(ir_rolled)
        IN  /\ Len(ir_rolled) = Len(ir_exprs)
            /\ \A i \in 1..Len(ir_rolled) : ir_rolled[i][1] = i /\ ir_rolled[i][3] = 1
            /\ ir_rollers = 1
            /\ spoken = <<>> <=> ir_pc = "returned"
            /\ ir_pc = "returned" => ir_replies = <<>>
            /\ ir_pc = "replied" =>
                  /\ Len(ir_replies) = 1
                  /\ Len(LinesOf(ir_replies[1])) = Len(spoken)
                  /\ \A k \in 1..Len(spoken) :
                        LET line == LinesOf(ir_replies[1])[k]
                            expr == ir_exprs[spoken[k][1]][1]
                        IN  /\ Contains(line, <<"(">> \o ErrorText(expr) \o <<")">>)
                                <=> spoken[k][2] = "error"
                            /\ Contains(line, <<"(">> \o ResultText(expr) \o <<")">>)
                                <=> spoken[k][2] = "result"

\* three candidates: a syntax error, a roll error and a result, two lines sent
C8_Witness ==
    /\ ir_pc = "replied"
    /\ Len(ir_rolled) = 3
    /\ ir_rolled[1][2] = "syntax"
    /\ ir_rolled[2][2] = "error"
    /\ ir_rolled[3][2] = "result"
    /\ Len(LinesOf(ir_replies[1])) = 2
    /\ ir_exprs[2][2] # <<>>

---------------------------------------------------------------------------
\* The listeners on_message and on_reaction_add and the handlers they await.
\* Every dispatched event runs as a coroutine of its own; a coroutine runs
\* without interruption from one await of bot.rdb or of the gateway to the
\* next, and other coroutines run in between.

\* Bound of the model: the events dispatched.
MaxTasks == 3

\* line 22
INLINE_ROLLING_EMOJI == "game_die"
Emojis == {INLINE_ROLLING_EMOJI, "thumbsup"}

\* users 1 and 2 are people, user 3 is a bot
Users == {1, 2, 3}
IsBot(u) == u = 3

\* the messages of the channel: one with an inline roll, one without, one
\* with an inline roll sent by a bot
Messages ==
    { [id |-> 1, author |-> 1, content |-> <<"w", " ">> \o InlineExpr],
      [id |-> 2, author |-> 1, content |-> <<"w">>],
      [id |-> 3, author |-> 3, content |-> InlineExpr] }

\* lines 310, 337: list(_find_inline_exprs(message.content))
RollExprsOf(text) ==
    YieldExprs(text,
        EndBoundaries(StartBoundaries(
            RawIdxs(text, _find_roll_expr_indices(text), context_before_default,
                    context_after_default, max_context_len_default))))

InitEvents ==
    /\ rdb = {}
    /\ onboarded = {}
    /\ tasks = <<>>
    /\ delivered = {}
    /\ rolled = <<>>

Task(kind, m, pc) == [kind |-> kind, msg |-> m.id, author |-> m.author, pc |-> pc]

\* lines 296-312: on_message up to the first await of
\* handle_message_inline_rolls; the gateway dispatches it once per message
OnMessage ==
    \E m \in Messages :
        /\ Len(tasks) < MaxTasks
        /\ m.id \notin delivered
        /\ delivered' = delivered \cup {m.id}
        /\ tasks' = Append(tasks,
                        Task("message", m,
                             IF IsBot(m.author) THEN "returned"
                             ELSE IF RollExprsOf(m.content) = <<>> THEN "returned"
                             ELSE "onboarding"))
        /\ UNCHANGED <<rdb, onboarded, rolled>>
        /\ UNCHANGED <<textVars, advVars, rmVars, irVars>>

\* lines 324, 379-380: the onboarded flag of the author is read
OnboardingGet ==
    \E t \in 1..Len(tasks) :
        /\ tasks[t].pc = "onboarding"
        /\ tasks' = [tasks EXCEPT ![t].pc =
                        IF tasks[t].author \in onboarded THEN "rolls" ELSE "dm"]
        /\ UNCHANGED <<rdb, onboarded, delivered, rolled>>
        /\ UNCHANGED <<textVars, advVars, rmVars, irVars>>

\* lines 394-398: the embed is sent to the author and the flag is set, or
\* the send raises discord.HTTPException and the flag stays unset
OnboardingSend ==
    \E t \in 1..Len(tasks), sent \in BOOLEAN :
        /\ tasks[t].pc = "dm"
        /\ onboarded' = IF sent THEN onboarded \cup {tasks[t].author} ELSE onboarded
        /\ tasks' = [tasks EXCEPT ![t].pc = "rolls"]
        /\ UNCHANGED <<rdb, delivered, rolled>>
        /\ UNCHANGED <<textVars, advVars, rmVars, irVars>>

\* lines 302-345: on_reaction_add up to the await of bot.rdb.get
OnReactionAdd ==
    \E m \in Messages, user \in Users, emoji \in Emojis :
        /\ Len(tasks) < MaxTasks
        /\ tasks' = Append(tasks,
                        Task("reaction", m,
                             IF IsBot(user) THEN "returned"
                             ELSE IF user # m.author THEN "returned"
                             ELSE IF emoji # INLINE_ROLLING_EMOJI THEN "returned"
                             ELSE IF RollExprsOf(m.content) = <<>> THEN "returned"
                             ELSE "get"))
        /\ UNCHANGED <<rdb, onboarded, delivered, rolled>>
        /\ UNCHANGED <<textVars, advVars, rmVars, irVars>>

\* lines 345-346: the reply of bot.rdb.get arrives; the handler returns when
\* the processed key is set, and goes on to call bot.rdb.setex when it is not
ReactionGet ==
    \E t \in 1..Len(tasks) :
        /\ tasks[t].pc = "get"
        /\ tasks' = [tasks EXCEPT ![t].pc =
                        IF tasks[t].msg \in rdb THEN "returned" ELSE "setex"]
        /\ UNCHANGED <<rdb, onboarded, delivered, rolled>>
        /\ UNCHANGED <<textVars, advVars, rmVars, irVars>>

\* lines 349-353: bot.rdb.setex sets the processed key for 24 hours
ReactionSetex ==
    \E t \in 1..Len(tasks) :
        /\ tasks[t].pc = "setex"
        /\ rdb' = rdb \cup {tasks[t].msg}
        /\ tasks' = [tasks EXCEPT ![t].pc = "rolls"]
        /\ UNCHANGED <<onboarded, delivered, rolled>>
        /\ UNCHANGED <<textVars, advVars, rmVars, irVars>>

\* lines 327, 354: do_inline_rolls(message, roll_exprs) is run
DoInlineRolls ==
    \E t \in 1..Len(tasks) :
        /\ tasks[t].pc = "rolls"
        /\ rolled' = Append(rolled, <<tasks[t].msg, t>>)
        /\ tasks' = [tasks EXCEPT ![t].pc = "done"]
        /\ UNCHANGED <<rdb, onboarded, delivered>>
        /\ UNCHANGED <<textVars, advVars, rmVars, irVars>>

NextEvents ==
    \/ OnMessage
    \/ OnboardingGet
    \/ OnboardingSend
    \/ OnReactionAdd
    \/ ReactionGet
    \/ ReactionSetex
    \/ DoInlineRolls

\* ---- properties of the handlers ----

\* the reaction handlers for message id m that went on to do_inline_rolls
ReactionRollers(m) ==
    {t \in 1..Len(tasks) :
        tasks[t].kind = "reaction" /\ tasks[t].msg = m /\ tasks[t].pc \in {"rolls", "done"}}

\* C5: of the handlers of reactions to one message, at most one goes on to
\* do_inline_rolls, however their steps interleave.
C5_AtMostOneReactionHandlerRolls ==
    \A m \in Messages : Cardinality(ReactionRollers(m.id)) <= 1

\* the do_inline_rolls calls made for message id m, by either handler
RollsOf(m) == {k \in 1..Len(rolled) : rolled[k][1] = m}

\* C11: whatever events arrive for a message with an inline roll (its
\* on_message event and any dice-emoji reactions of its author, the processed
\* key never expiring in between), do_inline_rolls runs at most once for it.
C11_MessageRolledAtMostOnce ==
    \A m \in Messages : Cardinality(RollsOf(m.id)) <= 1

---------------------------------------------------------------------------
\* The specifications: one per component, the other components switched off.

TextOff ==
    /\ content = <<>> /\ pieces = 0 /\ words = 0 /\ longs = 0 /\ lastGap = FALSE
    /\ layout = <<>> /\ fpc = "off" /\ ranges = <<>> /\ idxs_raw = <<>>
    /\ idxs = <<>> /\ exprs = <<>>

AdvOff ==
    /\ rollstr = <<>> /\ rs_chunks = 0 /\ apc = "off" /\ adv_result = <<>>

RollManyOff ==
    /\ rm_pc = "off" /\ rm_args = [iterations |-> 0] /\ rm_parsed = 0 /\ rm_rollers = 0
    /\ rm_results = <<>> /\ rm_successes = 0 /\ rm_render = [out |-> ""]
    /\ rm_sent = <<>> /\ rm_deleted = FALSE /\ rm_stats = 0

InlineRollsOff ==
    /\ ir_pc = "off" /\ ir_exprs = <<>> /\ ir_i = 0 /\ ir_out = <<>> /\ ir_rolled = <<>>
    /\ ir_rollers = 0 /\ ir_replies = <<>>

EventsOff ==
    /\ rdb = {} /\ onboarded = {} /\ tasks = <<>> /\ delivered = {} /\ rolled = <<>>

\* _find_inline_exprs and _find_roll_expr_indices on composed texts
InitInline == InitText /\ AdvOff /\ RollManyOff /\ InlineRollsOff /\ EventsOff

SpecInline == InitInline /\ [][NextText]_vars

\* _string_search_adv on composed arguments
InitAdvOnly == InitAdv /\ TextOff /\ RollManyOff /\ InlineRollsOff /\ EventsOff

SpecAdv == InitAdvOnly /\ [][NextAdv]_vars

\* one call of _roll_many
InitRollManyOnly == InitRollMany /\ TextOff /\ AdvOff /\ InlineRollsOff /\ EventsOff

SpecRollMany == InitRollManyOnly /\ [][NextRollMany]_vars

\* one call of do_inline_rolls
InitInlineRollsOnly == InitInlineRolls /\ TextOff /\ AdvOff /\ RollManyOff /\ EventsOff

SpecInlineRolls == InitInlineRollsOnly /\ [][NextInlineRolls]_vars

\* the listeners, with events dispatched concurrently
InitEventsOnly == InitEvents /\ TextOff /\ AdvOff /\ RollManyOff /\ InlineRollsOff

SpecEvents == InitEventsOnly /\ [][NextEvents]_vars

====
